---------------------------- MODULE Spec2Model ----------------------------
(***************************************************************************)
(* Fortune's sweepline of src/sweepline.hpp as a state machine.            *)
(*                                                                         *)
(* value_type is modelled as the exact field the template parameter can be *)
(* instantiated with: site coordinates are integers, a circumcentre is a   *)
(* pair of fractions over a common denominator, a radius is the square     *)
(* root of a fraction, and every comparison is decided exactly.            *)
(* The tolerance eps is a positive value below every gap between values    *)
(* the bounded inputs produce: x + eps < y holds exactly when x < y, and   *)
(* x + eps = y never holds.                                                *)
(*                                                                         *)
(* Iterators are handles.  A vertex handle is the address of its set node: *)
(* vmem maps every address ever used to what the node's memory holds,      *)
(* vertices_ is the set of addresses that are live, vfree the stack of     *)
(* freed ones.  Reading through an erased handle is undefined behaviour;   *)
(* the run then either faults or reads what the memory holds, and a later  *)
(* allocation either takes a fresh address or reuses the last freed one.   *)
(***************************************************************************)
EXTENDS Integers, Sequences, FiniteSets, TLC

\* Longest input sequence of sites.
MaxSites == 4

\* Coordinates the sites are drawn from.
Xs == 0 .. 3
Ys == 0 .. 2

nov == 0     \* std::end(vertices_)
noep == 0    \* std::end(endpoints_)

-----------------------------------------------------------------------------
(* Exact arithmetic *)

Sgn(a) == IF a > 0 THEN 1 ELSE IF a < 0 THEN -1 ELSE 0

Abs(a) == IF a < 0 THEN -a ELSE a

RECURSIVE GCD(_, _)
GCD(a, b) == IF b = 0 THEN Abs(a) ELSE GCD(Abs(b), Abs(a) % Abs(b))

\* Elements u + w*sqrt(m) as pairs <<u, w>>, m fixed by the context.
PAdd(a, b) == <<a[1] + b[1], a[2] + b[2]>>
PSub(a, b) == <<a[1] - b[1], a[2] - b[2]>>
PScale(k, a) == <<k * a[1], k * a[2]>>
PMul(a, b, m) == <<a[1] * b[1] + a[2] * b[2] * m, a[1] * b[2] + a[2] * b[1]>>

\* sign of u + w*sqrt(m), m >= 0
PSign(a, m) ==
    LET su == Sgn(a[1])
        sw == IF m = 0 THEN 0 ELSE Sgn(a[2])
    IN  IF sw = 0 THEN su
        ELSE IF su = 0 THEN sw
        ELSE IF su = sw THEN su
        ELSE su * Sgn(a[1] * a[1] - a[2] * a[2] * m)

\* sign of al*sqrt(m) - be*sqrt(n) - t, for al, be, m, n >= 0
SqrtSign(al, m, be, n, t) ==
    LET ts == PSign(<<t, be>>, n)               \* sign of t + be*sqrt(n)
        u  == al * al * m - t * t - be * be * n
    IN  IF ts < 0 THEN 1
        ELSE IF ts = 0 THEN Sgn(al * al * m)
        ELSE PSign(<<u, -2 * t * be>>, n)


-----------------------------------------------------------------------------
(* Geometric primitives *)

\* a + eps < b and a + eps = b for values a, b of the bounded inputs
LtEps(a, b) == a < b
EqEps(a, b) == FALSE

\* point_less on two points: std::tie(l.x + eps, l.y + eps) < std::tie(r.x, r.y)
point_less(l, r) ==
    \/ LtEps(l.x, r.x)
    \/ (EqEps(l.x, r.x) /\ LtEps(l.y, r.y))

\* point_less on two vertices compares the circumcentres (xn/g, yn/g)
vertex_less(l, r) ==
    \/ LtEps(l.xn * r.g, r.xn * l.g)
    \/ (EqEps(l.xn * r.g, r.xn * l.g) /\ LtEps(l.yn * r.g, r.yn * l.g))

\* sign of l.x() - r.x(), the touch coordinates x + R of two vertices
TouchSign(l, r) ==
    LET d == GCD(l.g, r.g)
        P == r.g \div d
        Q == l.g \div d
    IN  SqrtSign(P, l.rn, Q, r.rn, Q * r.xn - P * l.xn)

\* event_less: std::tie(l.x() + eps, l.y() + eps) < std::tie(r.x(), r.y())
event_less(l, r) ==
    \/ TouchSign(l, r) < 0
    \/ (EqEps(0, 0) /\ LtEps(l.yn * r.g, r.yn * l.g))

\* prior: std::tie(l.x() + eps, l.y() + eps) < std::tie(r.x, r.y)
prior(l, r) ==
    \/ SqrtSign(1, l.rn, 0, 0, r.x * l.g - l.xn) < 0
    \/ (EqEps(0, 0) /\ LtEps(l.yn, r.y * l.g))

\* The circle through a, b, c, or NoCircle: the arithmetic of make_vertex.
\* Centre (xn/g, yn/g) in lowest terms, squared radius rn/g^2.
NoCircle == [xn |-> 0, yn |-> 0, g |-> 0, rn |-> 0]

\* the circle with centre (xn/g, yn/g) through a
circle_through(xn, yn, g, a) ==
    [xn |-> xn, yn |-> yn, g |-> g,
     rn |-> (xn - a.x * g) * (xn - a.x * g) + (yn - a.y * g) * (yn - a.y * g)]

lowest_terms(x, y, G2, k, a) == circle_through(x \div k, y \div k, G2 \div k, a)

circle_centre(x, y, G2, a) == lowest_terms(x, y, G2, GCD(GCD(x, y), G2), a)

\* circumcircle with G of the other sign
circumcircle_mirrored(a, b, c) ==
    LET A == b.x - a.x
        B == b.y - a.y
        C == c.x - b.x
        D == c.y - b.y
        G == A * D - B * C
        E == c.x - a.x
        F == c.y - a.y
        M == A * (a.x + b.x) + B * (a.y + b.y)
        N == E * (a.x + c.x) + F * (a.y + c.y)
    IN  IF ~(0 < G) THEN NoCircle
        ELSE circle_centre(B * N - F * M, E * M - A * N, G + G, a)

\* lines 336-353: G = B * C - A * D and the circumcentre
circumcircle(a, b, c) ==
    LET A == b.x - a.x
        B == b.y - a.y
        C == c.x - b.x
        D == c.y - b.y
        G == B * C - A * D
        E == c.x - a.x
        F == c.y - a.y
        M == A * (a.x + b.x) + B * (a.y + b.y)
        N == E * (a.x + c.x) + F * (a.y + c.y)
    IN  IF ~(0 < G) THEN NoCircle      \* !(eps * eps < G)
        ELSE circle_centre(B * N - F * M, E * M - A * N, G + G, a)

\* A probe of the transparent comparator: directrix (dn + dq*sqrt(m))/g and
\* ordinate yn/g.
PointProbe(p) == [dn |-> p.x, dq |-> 0, m |-> 0, yn |-> p.y, g |-> 1]
VertexProbe(v) == [dn |-> v.xn, dq |-> 1, m |-> v.rn, yn |-> v.yn, g |-> v.g]

NaN == 2

\* the root (b + sqrt(D)) / a against y: A is the sign of a, qv the sign of the
\* quadratic at y, ax the side of its axis y lies on
root_cmp(A, qv, ax) ==
    IF A > 0                                        \* the larger root
    THEN (IF qv < 0 THEN 1
          ELSE IF qv = 0 THEN (IF ax < 0 THEN 1 ELSE 0)
          ELSE IF ax < 0 THEN 1 ELSE -1)
    ELSE (IF qv > 0 THEN -1                        \* the smaller root
          ELSE IF qv = 0 THEN (IF ax > 0 THEN -1 ELSE 0)
          ELSE IF ax < 0 THEN 1 ELSE -1)

\* the quadratic case of intersect; LD, RD are g * (l.x - directrix), g * (r.x - directrix)
quadratic_cmp(l, r, q, LD, RD, BH, D2) ==
    root_cmp(l.x - r.x,
             PSign(PAdd(PSub(<<(l.x - r.x) * q.yn * q.yn * q.g, 0>>,
                             PScale(2 * q.yn * q.g, BH)),
                        PSub(PMul(LD, PSub(<<(r.x * r.x + r.y * r.y) * q.g * q.g, 0>>, D2), q.m),
                             PMul(RD, PSub(<<(l.x * l.x + l.y * l.y) * q.g * q.g, 0>>, D2), q.m))),
                   q.m),
             PSign(PSub(<<(l.x - r.x) * q.yn, 0>>, BH), q.m) * Sgn(l.x - r.x))

intersect_cmp(l, r, q, LD, RD, ldeg, rdeg) ==
    IF ldeg /\ rdeg THEN Sgn((l.y + r.y) * q.g - 2 * q.yn)
    ELSE IF ldeg THEN Sgn(l.y * q.g - q.yn)
    ELSE IF rdeg THEN Sgn(r.y * q.g - q.yn)
    ELSE IF LtEps(l.x, r.x) \/ LtEps(r.x, l.x)
    THEN quadratic_cmp(l, r, q, LD, RD,
                       PSub(PScale(r.y, LD), PScale(l.y, RD)),
                       PMul(<<q.dn, q.dq>>, <<q.dn, q.dq>>, q.m))
    ELSE IF l.y = r.y THEN NaN                      \* c / b with b = 0, c = 0
    ELSE Sgn((l.y + r.y) * q.g - 2 * q.yn)

degenerated(l, r, q, LD, RD) ==
    intersect_cmp(l, r, q, LD, RD, ~(PSign(LD, q.m) < 0), ~(PSign(RD, q.m) < 0))

\* sign of intersect(l, r, directrix) - y for the probe q, or NaN
IntersectCmp(l, r, q) ==
    degenerated(l, r, q, <<l.x * q.g - q.dn, -q.dq>>, <<r.x * q.g - q.dn, -q.dq>>)

-----------------------------------------------------------------------------
(* Program state *)

VARIABLES
    sites,        \* the input range [l, r): a sequence of points
    p,            \* the driver's loop position in the input
    pc,           \* "run", "done" (operator() returned) or "fault"
    cells_,       \* the map of cells in key order: [site, ring]
    edges_,       \* the list of edges: [l, r, b, e]
    vmem,         \* what the memory at each vertex address holds
    vertices_,    \* the addresses of the vertices in the set
    vfree,        \* freed vertex addresses, last freed first
    endpoints_,   \* the beach line in order: [id, l, r, e, ev]
    nep,          \* endpoint handles handed out so far
    events_,      \* the event queue in order: [v, ep]
    failed,       \* the assertions of the source that did not hold so far
    ub,           \* an erased handle has been read or erased again
    last          \* the operation the driver performed last

vars == <<sites, p, pc, cells_, edges_, vmem, vertices_, vfree, endpoints_, nep,
          events_, failed, ub, last>>

\* The containers as one value, threaded through the operations below.
\* Per operation: ub, an erased handle was used; stuck, the operation dereferenced
\* an iterator no container holds and has no modelled outcome; range and made, the
\* results of endpoint_range and make_vertex; kind, the branch begin_cell took;
\* fired, the range finish_edges erased; truncs, the calls of trunc_edge with the
\* edge before and after; erased, the handles given to vertices_.erase; checks and
\* deletes, the calls of check_event that made a vertex and of delete_event, with
\* the containers before and after; mid, the containers finish_edges has made
\* before it calls check_event.
State ==
    [cells |-> cells_, edges |-> edges_, vmem |-> vmem, vlive |-> vertices_,
     vfree |-> vfree, endpoints |-> endpoints_, nep |-> nep, events |-> events_,
     failed |-> failed, ub |-> FALSE, stuck |-> FALSE, range |-> <<0, 0>>,
     made |-> nov, kind |-> "", fired |-> <<0, 0>>, truncs |-> <<>>, erased |-> {},
     checks |-> <<>>, deletes |-> <<>>, mid |-> <<>>]

Pt(c) == sites[c]                 \* *c->first, the point of a cell's key

InsertAt(seq, i, x) == SubSeq(seq, 1, i - 1) \o <<x>> \o SubSeq(seq, i, Len(seq))

RemoveAt(seq, i) == SubSeq(seq, 1, i - 1) \o SubSeq(seq, i + 1, Len(seq))

Min(S) == CHOOSE x \in S : \A y \in S : x <= y
Max(S) == CHOOSE x \in S : \A y \in S : y <= x

\* assert(cond): the release path goes on; the failure is recorded
Check(S, cond, label) == IF cond THEN S ELSE [S EXCEPT !.failed = @ \cup {label}]

\* a read through the vertex handles hs
Deref(S, hs) == IF hs \subseteq S.vlive THEN S ELSE [S EXCEPT !.ub = TRUE]

Stuck(S) == [S EXCEPT !.ub = TRUE, !.stuck = TRUE]

\* the containers an operation is said to change or to leave alone
Containers(S) ==
    [events |-> S.events, vlive |-> S.vlive, endpoints |-> S.endpoints,
     edges |-> S.edges, cells |-> S.cells]

-----------------------------------------------------------------------------
(* vertices_ *)

vertices_new(S, c, addr) ==
    [S EXCEPT !.vmem = IF addr <= Len(@) THEN [@ EXCEPT ![addr] = c] ELSE Append(@, c),
              !.vlive = @ \cup {addr},
              !.vfree = IF addr <= Len(S.vmem) THEN Tail(@) ELSE @,
              !.made = addr]

\* a new node, at a fresh address or at the last freed one
vertices_alloc(S, c, reuse) ==
    vertices_new(S, c, IF reuse /\ S.vfree # <<>> THEN Head(S.vfree) ELSE Len(S.vmem) + 1)

vertices_found(S, c, reuse, same) ==
    IF same # {} THEN [S EXCEPT !.made = CHOOSE w \in same : TRUE]
    ELSE vertices_alloc(S, c, reuse)

\* vertices_.insert({{x, y}, R}).first for the circle c: the stored vertex with an
\* equivalent key, else a new node
vertices_insert(S, c, reuse) ==
    vertices_found(S, c, reuse,
        {w \in S.vlive : ~vertex_less(S.vmem[w], c) /\ ~vertex_less(c, S.vmem[w])})

make_circle(S, circle, reuse) ==
    IF circle = NoCircle THEN [S EXCEPT !.made = nov]
    ELSE vertices_insert(S, circle, reuse)

\* make_vertex(a, b, c): the handle is left in .made, nov when there is no vertex
make_vertex(S, a, b, c, reuse) == make_circle(S, circumcircle(a, b, c), reuse)

\* vertices_.erase(v)
vertices_erase(S, v) ==
    IF v \in S.vlive
    THEN [S EXCEPT !.vlive = @ \ {v}, !.vfree = <<v>> \o @, !.erased = @ \cup {v}]
    ELSE [S EXCEPT !.ub = TRUE, !.erased = @ \cup {v}]

-----------------------------------------------------------------------------
(* events_ *)

\* the first position whose key is not event_less than v
events_lower_bound(S, v) ==
    Min({i \in 1 .. Len(S.events) + 1 :
            i = Len(S.events) + 1 \/ ~event_less(S.vmem[S.events[i].v], S.vmem[v])})

events_at(S, v, i) ==
    IF i <= Len(S.events) /\ ~event_less(S.vmem[v], S.vmem[S.events[i].v])
    THEN i ELSE 0

\* events_.find(v): the position of the equivalent key, 0 when there is none
events_find(S, v) == events_at(S, v, events_lower_bound(S, v))

EventKeys(S) == {S.events[i].v : i \in 1 .. Len(S.events)}

events_put(S, v, r, at) ==
    IF at = 0
    THEN [S EXCEPT !.events = InsertAt(@, events_lower_bound(S, v), [v |-> v, ep |-> r])]
    ELSE [S EXCEPT !.events[at].ep = noep]

events_insert_read(S, v, r) == events_put(S, v, r, events_find(S, v))

\* events_.insert({v, r}); if (!e.second) e.first->second = noep;
events_insert(S, v, r) == events_insert_read(Deref(S, EventKeys(S) \cup {v}), v, r)

-----------------------------------------------------------------------------
(* endpoints_ *)

\* the position of the endpoint with handle id, 0 when it was erased
EpPos(S, id) ==
    IF \E i \in 1 .. Len(S.endpoints) : S.endpoints[i].id = id
    THEN CHOOSE i \in 1 .. Len(S.endpoints) : S.endpoints[i].id = id
    ELSE 0

\* endpoint_less(endpoint, probe) and endpoint_less(probe, endpoint)
EpLessProbe(S, i, q) == IntersectCmp(Pt(S.endpoints[i].l), Pt(S.endpoints[i].r), q) = -1
ProbeLessEp(S, i, q) == IntersectCmp(Pt(S.endpoints[i].l), Pt(S.endpoints[i].r), q) = 1

\* Where a search down the tree can end: the element is not less than the probe
\* and its predecessor is.  One position when the beach line is partitioned by the
\* probe, as equal_range requires.
LowerBounds(S, q) ==
    {i \in 1 .. Len(S.endpoints) + 1 :
        /\ (i = Len(S.endpoints) + 1 \/ ~EpLessProbe(S, i, q))
        /\ (i = 1 \/ EpLessProbe(S, i - 1, q))}

UpperBounds(S, q) ==
    {i \in 1 .. Len(S.endpoints) + 1 :
        /\ (i = Len(S.endpoints) + 1 \/ ProbeLessEp(S, i, q))
        /\ (i = 1 \/ ~ProbeLessEp(S, i - 1, q))}

Pick(set, high) == IF high THEN Max(set) ELSE Min(set)

range_from(lb, ubs, high) == <<lb, IF ubs = {} THEN lb ELSE Pick(ubs, high)>>

range_above(lb, ubs, high) == range_from(lb, {i \in ubs : i >= lb}, high)

\* endpoints_.equal_range(probe) as positions <<first, second>>
equal_range(S, q, high) == range_above(Pick(LowerBounds(S, q), high), UpperBounds(S, q), high)

range_lookup(S, v, high) ==
    [S EXCEPT !.range = equal_range(S, VertexProbe(S.vmem[v]), high)]

range_linked(S, v, i) ==
    IF i = 0 THEN Stuck(S)
    ELSE IF i = 1 THEN Stuck(Check(S, FALSE, "endpoint_range:366"))
    ELSE [Check(Check(S, S.endpoints[i - 1].ev = v, "endpoint_range:368"),
                S.endpoints[i].ev = v, "endpoint_range:369")
            EXCEPT !.range = <<i - 1, i + 1>>]

\* endpoint_range(ep, v): the positions <<first, second>> are left in .range
endpoint_range(S, ep, v, high) ==
    IF ep = noep THEN range_lookup(Deref(S, {v}), v, high)
    ELSE range_linked(S, v, EpPos(S, ep))

-----------------------------------------------------------------------------
(* delete_event and check_event *)

\* delete_links with the breakpoints' links left as they are
delete_links_kept(S, e, v) ==
    vertices_erase([S EXCEPT !.events = RemoveAt(@, e)], v)

delete_links(S, e, v) ==
    vertices_erase(
        [S EXCEPT !.events = RemoveAt(@, e),
                  !.endpoints = [i \in 1 .. Len(@) |->
                       IF S.range[1] <= i /\ i < S.range[2] THEN [@[i] EXCEPT !.ev = nov]
                       ELSE @[i]]],
        v)

delete_ranged(S, e, v) == IF S.stuck THEN S ELSE delete_links(S, e, v)

delete_found(S, v, e, high) ==
    IF e = 0 THEN Stuck(Check(S, FALSE, "delete_event:376"))
    ELSE delete_ranged(endpoint_range(S, S.events[e].ep, v, high), e, v)

delete_read(S, v, high) == delete_found(S, v, events_find(S, v), high)

\* the call delete_event(v) that took S to T, kept in .deletes
delete_log(T, S, v) ==
    [T EXCEPT !.deletes = Append(@, [v |-> v, was |-> Containers(S), now |-> Containers(T)])]

\* delete_event(v)
delete_event(S, v, high) ==
    delete_log(delete_read(Deref(S, EventKeys(S) \cup {v}), v, high), S, v)

\* install_event with only rr.second assigned
install_event_right(S, l, r, v) ==
    events_insert(
        [Check(Check(S, S.endpoints[l].ev = nov, "check_event:412"),
               S.endpoints[r].ev = nov, "check_event:413")
            EXCEPT !.endpoints[r].ev = v],
        v, S.endpoints[r].id)

\* the tail of check_event, lines 412-418
install_event(S, l, r, v) ==
    events_insert(
        [Check(Check(S, S.endpoints[l].ev = nov, "check_event:412"),
               S.endpoints[r].ev = nov, "check_event:413")
            EXCEPT !.endpoints[l].ev = v, !.endpoints[r].ev = v],
        v, S.endpoints[r].id)

install_after(S, l, r, v) == IF S.stuck THEN S ELSE install_event(S, l, r, v)

\* lines 397-402 and 405-410: w is the event the pair already links
check_pending(S, l, r, v, w, high) ==
    IF event_less(S.vmem[v], S.vmem[w])
    THEN install_after(delete_event(S, w, high), l, r, v)
    ELSE [vertices_erase(S, v) EXCEPT !.made = nov]

check_made(S, l, r, v, lev, rev, high) ==
    IF v = nov THEN S
    ELSE IF lev = nov /\ rev = nov THEN install_event(S, l, r, v)
    ELSE check_pending(
             Deref(Check(S, lev = nov \/ rev = nov, "check_event:396"),
                   {v, IF lev # nov THEN lev ELSE rev}),
             l, r, v, IF lev # nov THEN lev ELSE rev, high)

\* the call check_event(l, r) that made vertex v and took S to T, kept in .checks:
\* w is the event the pair linked, cv and cw are what v and w point to
check_log(T, S, l, r, v, w) ==
    IF v = nov THEN T
    ELSE [T EXCEPT !.checks = Append(@,
             [l |-> l, r |-> r, v |-> v, w |-> w, cv |-> S.vmem[v],
              cw |-> IF w = nov THEN NoCircle ELSE S.vmem[w],
              was |-> Containers(S), now |-> Containers(T)])]

check_vertex(S, l, r, high) ==
    check_log(check_made(S, l, r, S.made, S.endpoints[l].ev, S.endpoints[r].ev, high),
              S, l, r, S.made,
              IF S.endpoints[l].ev # nov THEN S.endpoints[l].ev ELSE S.endpoints[r].ev)

\* check_event(l, r) for the endpoints at positions l and r
check_event(S, l, r, reuse, high) ==
    check_vertex(
        make_vertex(
            Check(Check(S, r = l + 1, "check_event:389"),
                  S.endpoints[l].r = S.endpoints[r].l, "check_event:392"),
            Pt(S.endpoints[l].l), Pt(S.endpoints[l].r), Pt(S.endpoints[r].r), reuse),
        l, r, high)

-----------------------------------------------------------------------------
(* The beach-line comparator on two endpoints; hint_ is never set by the source *)

\* std::max(a, b, point_less)
point_max(a, b) == IF point_less(a, b) THEN b ELSE a

endpoint_less(l, r) ==
    IF l.r = r.l THEN TRUE
    ELSE IF l.l = r.r THEN FALSE
    ELSE IF l.l = r.l /\ l.r = r.r THEN FALSE
    ELSE point_max(Pt(l.l), Pt(l.r)).y < point_max(Pt(r.l), Pt(r.r)).y

\* endpoints_.insert(hint, k) puts k right before the hint position at without a
\* search down the tree
hint_fits(eps, at, k) ==
    IF at = Len(eps) + 1
    THEN eps = <<>> \/ endpoint_less(eps[Len(eps)], k)
    ELSE /\ endpoint_less(k, eps[at])
         /\ (at = 1 \/ endpoint_less(eps[at - 1], k))

-----------------------------------------------------------------------------
(* cells_ *)

\* the cells with a key equivalent to site s under point_less
cells_equivalent(S, s) ==
    {i \in 1 .. Len(S.cells) :
        /\ ~point_less(Pt(S.cells[i].site), sites[s])
        /\ ~point_less(sites[s], Pt(S.cells[i].site))}

cells_key(S, same) == IF same = {} THEN 0 ELSE S.cells[Min(same)].site

\* the key of the cell equivalent to site s, 0 when there is none
cells_find(S, s) == cells_key(S, cells_equivalent(S, s))

cells_lower_bound(S, s) ==
    Min({i \in 1 .. Len(S.cells) + 1 :
            i = Len(S.cells) + 1 \/ ~point_less(Pt(S.cells[i].site), sites[s])})

\* cells_.insert({s, {}})
cells_insert(S, s) ==
    IF cells_find(S, s) # 0 THEN S
    ELSE [S EXCEPT !.cells = InsertAt(@, cells_lower_bound(S, s), [site |-> s, ring |-> <<>>])]

CellPos(S, c) == CHOOSE i \in 1 .. Len(S.cells) : S.cells[i].site = c

push_front(S, c, e) == [S EXCEPT !.cells[CellPos(S, c)].ring = <<e>> \o @]
push_back(S, c, e) == [S EXCEPT !.cells[CellPos(S, c)].ring = Append(@, e)]

\* edges_.insert(cend, {l, r, b, nov}) and the two deques; the new edge is the last
add_edge(S, lc, rc, l, r, b) ==
    push_back(
        push_front([S EXCEPT !.edges = Append(@, [l |-> l, r |-> r, b |-> b, e |-> nov])],
                   lc, Len(S.edges) + 1),
        rc, Len(S.edges) + 1)

\* the endpoint {{lc, rc, edge_}, nov} for the edge inserted last
new_endpoint(S, lc, rc) ==
    [id |-> S.nep + 1, l |-> lc, r |-> rc, e |-> Len(S.edges), ev |-> nov]

-----------------------------------------------------------------------------
(* begin_cell *)

\* append_endpoint with the cells of the breakpoint exchanged
append_endpoint_swapped(S, lc, c) ==
    [S EXCEPT !.endpoints = Append(@, new_endpoint(S, c, lc)), !.nep = @ + 1]

\* endpoints_.insert(noep, {{lc, c.first, edge_}, nov}), lines 293 and 303
append_endpoint(S, lc, c) ==
    [S EXCEPT !.endpoints = Append(@, new_endpoint(S, lc, c)), !.nep = @ + 1]

\* line 309
begin_check_right(S, n, reuse2, high) ==
    IF S.stuck THEN S ELSE check_event(S, n, n + 1, reuse2, high)

\* lines 306-308
begin_check_left(S, n, reuse1, reuse2, high) ==
    begin_check_right(IF n # 1 THEN check_event(S, n - 1, n, reuse1, high) ELSE S,
                      n, reuse2, high)

\* lines 297-309: appending to the rightmost endpoint, at position n
begin_append(S, s, c, lc, n, reuse1, reuse2, high) ==
    begin_check_left(append_endpoint(add_edge(S, lc, c, lc, s, nov), lc, c),
                     n, reuse1, reuse2, high)

\* begin_second with the sites of the new edge exchanged
begin_second_swapped(S, s, c, lc) ==
    append_endpoint(
        add_edge(Check(Check(S, Len(S.cells) = 2, "begin_cell:289"),
                       S.cells[2].site = c, "begin_cell:290"),
                 lc, c, s, lc, nov),
        lc, c)

\* lines 288-295: the second site
begin_second(S, s, c, lc) ==
    append_endpoint(
        add_edge(Check(Check(S, Len(S.cells) = 2, "begin_cell:289"),
                       S.cells[2].site = c, "begin_cell:290"),
                 lc, c, lc, s, nov),
        lc, c)

begin_branch(S, s, c, lr, reuse1, reuse2, high) ==
    IF lr[1] = Len(S.endpoints) + 1
    THEN IF S.endpoints = <<>>
         THEN IF c = S.cells[1].site
              THEN [Check(S, Len(S.cells) = 1, "begin_cell:286") EXCEPT !.kind = "first"]
              ELSE [begin_second(S, s, c, S.cells[1].site) EXCEPT !.kind = "second"]
         ELSE [begin_append(Check(S, 2 < Len(S.cells), "begin_cell:298"), s, c,
                            S.endpoints[Len(S.endpoints)].r, Len(S.endpoints),
                            reuse1, reuse2, high)
                 EXCEPT !.kind = "append"]
    ELSE [S EXCEPT !.kind = IF lr[1] = lr[2] THEN "none" ELSE "range"]

begin_probe(S, s, c, reuse1, reuse2, high) ==
    begin_branch(S, s, c, equal_range(S, PointProbe(sites[s]), high), reuse1, reuse2, high)

\* old is the key of the cell insert found, 0 when it inserted
begin_inserted(S, s, old, reuse1, reuse2, high) ==
    begin_probe(Check(cells_insert(S, s), old = 0, "begin_cell:280"),
                s, IF old = 0 THEN s ELSE old, reuse1, reuse2, high)

\* begin_cell(p) for the site at position s of the input
begin_cell(S, s, reuse1, reuse2, high) ==
    begin_inserted(S, s, cells_find(S, s), reuse1, reuse2, high)

-----------------------------------------------------------------------------
(* trunc_edge and finish_edges *)

\* the assignment to _edge, with the call kept in .truncs: the edge before and
\* after, the handle v and what it points to
trunc_put(S, e, v, now) ==
    [S EXCEPT !.edges[e] = now,
              !.truncs = Append(@, [edge |-> e, v |-> v, c |-> S.vmem[v],
                                    was |-> S.edges[e], now |-> now])]

trunc_b(S, e, v) == trunc_put(S, e, v, [S.edges[e] EXCEPT !.b = v])
trunc_e(S, e, v) == trunc_put(S, e, v, [S.edges[e] EXCEPT !.e = v])

\* trunc_orientate with the second test turned round
trunc_orientate_flipped(S, e, v, l, r, c) ==
    IF r.x < l.x
    THEN (IF c.yn < l.y * c.g THEN trunc_b(S, e, v) ELSE trunc_e(S, e, v))
    ELSE IF l.x < r.x
    THEN (IF c.yn < r.y * c.g THEN trunc_b(S, e, v) ELSE trunc_e(S, e, v))
    ELSE trunc_e(Check(S, ~(r.y < l.y), "trunc_edge:443"), e, v)

\* lines 428-444: neither endpoint is set; c is *v, the point v->p is (c.xn/c.g, c.yn/c.g)
trunc_orientate(S, e, v, l, r, c) ==
    IF r.x < l.x
    THEN (IF c.yn < l.y * c.g THEN trunc_b(S, e, v) ELSE trunc_e(S, e, v))
    ELSE IF l.x < r.x
    THEN (IF r.y * c.g < c.yn THEN trunc_b(S, e, v) ELSE trunc_e(S, e, v))
    ELSE trunc_e(Check(S, ~(r.y < l.y), "trunc_edge:443"), e, v)

trunc_case(S, e, v, ed) ==
    IF ed.b = nov
    THEN IF ed.e = nov
         THEN trunc_orientate(Deref(S, {v}), e, v, sites[ed.l], sites[ed.r], S.vmem[v])
         ELSE trunc_b(Check(S, ed.e # v, "trunc_edge:447"), e, v)
    ELSE trunc_e(Check(Check(S, ed.b # v, "trunc_edge:451"), ed.e = nov, "trunc_edge:452"),
                 e, v)

\* trunc_edge(*e, v)
trunc_edge(S, e, v) == trunc_case(Check(S, v # nov, "trunc_edge:426"), e, v, S.edges[e])

\* for (ep = lr.first; ep != lr.second; ++ep) trunc_edge(*ep->first.e, v);
RECURSIVE trunc_range(_, _, _, _)
trunc_range(S, i, hi, v) ==
    IF i >= hi THEN S
    ELSE trunc_range(trunc_edge(S, S.endpoints[i].e, v), i + 1, hi, v)

\* lines 476-478
finish_check_right(S, lo, reuse2, high) ==
    IF S.stuck THEN S
    ELSE IF lo + 1 <= Len(S.endpoints) THEN check_event(S, lo, lo + 1, reuse2, high)
    ELSE S

\* lines 473-475
finish_check_left(S, lo, reuse1, reuse2, high) ==
    finish_check_right(IF lo # 1 THEN check_event(S, lo - 1, lo, reuse1, high) ELSE S,
                       lo, reuse2, high)

\* the containers after line 472, kept in .mid
finish_mid(S) == [S EXCEPT !.mid = Containers(S)]

\* line 470: lr.first = endpoints_.insert(lr.second, k)
finish_insert(S, lo, k, reuse1, reuse2, high) ==
    IF ~hint_fits(S.endpoints, lo, k) THEN Stuck(Check(S, FALSE, "finish_edges:470"))
    ELSE finish_check_left(
             finish_mid([S EXCEPT !.endpoints = InsertAt(@, lo, k), !.nep = @ + 1]),
             lo, reuse1, reuse2, high)

finish_edge(S, lo, lc, rc, reuse1, reuse2, high) ==
    finish_insert(S, lo, new_endpoint(S, lc, rc), reuse1, reuse2, high)

\* finish_erase with the new edge left without its b
finish_erase_unset(S, lo, hi, lc, rc, v, reuse1, reuse2, high) ==
    finish_edge(
        add_edge([S EXCEPT !.endpoints = SubSeq(@, 1, lo - 1) \o SubSeq(@, hi, Len(@))],
                 lc, rc, lc, rc, nov),
        lo, lc, rc, reuse1, reuse2, high)

\* lines 468-472
finish_erase(S, lo, hi, lc, rc, v, reuse1, reuse2, high) ==
    finish_edge(
        add_edge([S EXCEPT !.endpoints = SubSeq(@, 1, lo - 1) \o SubSeq(@, hi, Len(@))],
                 lc, rc, lc, rc, v),
        lo, lc, rc, reuse1, reuse2, high)

\* finish_range with the event left in the queue
finish_range_queued(S, v, lo, hi, reuse1, reuse2, high) ==
    IF S.stuck THEN S
    ELSE IF lo > Len(S.endpoints) \/ hi < 2 \/ hi <= lo THEN Stuck(S)
    ELSE finish_erase(
             trunc_range([S EXCEPT !.fired = <<lo, hi>>], lo, hi, v),
             lo, hi, S.endpoints[lo].l, S.endpoints[hi - 1].r, v, reuse1, reuse2, high)

\* lines 462-467 for the range [lo, hi)
finish_range(S, v, lo, hi, reuse1, reuse2, high) ==
    IF S.stuck THEN S
    ELSE IF lo > Len(S.endpoints) \/ hi < 2 \/ hi <= lo THEN Stuck(S)
    ELSE finish_erase(
             trunc_range([S EXCEPT !.events = Tail(@), !.fired = <<lo, hi>>], lo, hi, v),
             lo, hi, S.endpoints[lo].l, S.endpoints[hi - 1].r, v, reuse1, reuse2, high)

finish_ranged(S, v, reuse1, reuse2, high) ==
    finish_range(S, v, S.range[1], S.range[2], reuse1, reuse2, high)

\* finish_edges(std::cbegin(events_))
finish_edges(S, reuse1, reuse2, high) ==
    finish_ranged(endpoint_range(S, S.events[1].ep, S.events[1].v, high),
                  S.events[1].v, reuse1, reuse2, high)

-----------------------------------------------------------------------------
(* The driver, operator()(l, r) *)

Points == [x : Xs, y : Ys]

\* std::is_sorted(l, r, point_less)
is_sorted(s) == \A i \in 1 .. Len(s) - 1 : ~point_less(s[i + 1], s[i])

\* the sorted sequences of at most MaxSites different points
Inputs ==
    UNION {{s \in [1 .. n -> Points] :
              /\ is_sorted(s)
              /\ \A i \in 1 .. n : \A j \in 1 .. n : s[i] = s[j] => i = j}
           : n \in 0 .. MaxSites}

Idle(op) ==
    [op |-> op, kind |-> "", site |-> 0, v |-> nov, lo |-> 0, hi |-> 0,
     truncs |-> <<>>, erased |-> {}, checks |-> <<>>, deletes |-> <<>>, mid |-> <<>>]

Init ==
    /\ sites \in Inputs
    /\ p = 1
    /\ pc = "run"
    /\ cells_ = <<>>
    /\ edges_ = <<>>
    /\ vmem = <<>>
    /\ vertices_ = {}
    /\ vfree = <<>>
    /\ endpoints_ = <<>>
    /\ nep = 0
    /\ events_ = <<>>
    /\ failed = {}
    /\ ub = FALSE
    /\ last = Idle("init")

\* the containers after an operation left them as T
Commit(T) ==
    /\ ~T.stuck
    /\ cells_' = T.cells
    /\ edges_' = T.edges
    /\ vmem' = T.vmem
    /\ vertices_' = T.vlive
    /\ vfree' = T.vfree
    /\ endpoints_' = T.endpoints
    /\ nep' = T.nep
    /\ events_' = T.events
    /\ failed' = T.failed

\* the loop test never holding
FirstPrior_never == FALSE

\* the loop test of line 498 reads the first event's vertex
FirstPrior == prior(vmem[events_[1].v], sites[p])
FirstLive == events_[1].v \in vertices_

Reuse == IF vfree = <<>> THEN {FALSE} ELSE BOOLEAN

Fired(T) ==
    /\ Commit(T)
    /\ ub' = (ub \/ T.ub \/ ~FirstLive)
    /\ last' = [op |-> "finish_edges", kind |-> IF p <= Len(sites) THEN "prior" ELSE "drain",
                site |-> 0, v |-> events_[1].v, lo |-> T.fired[1], hi |-> T.fired[2],
                truncs |-> T.truncs, erased |-> T.erased, checks |-> T.checks,
                deletes |-> T.deletes, mid |-> T.mid]

\* lines 496-502 and 505-507: fire the first event
Fire(reuse1, reuse2, high) ==
    /\ pc = "run"
    /\ events_ # <<>>
    /\ p <= Len(sites) => FirstPrior
    /\ Fired(finish_edges(State, reuse1, reuse2, high))
    /\ UNCHANGED <<sites, p, pc>>

Begun(T) ==
    /\ Commit(T)
    /\ ub' = (ub \/ T.ub \/ (events_ # <<>> /\ ~FirstLive))
    /\ last' = [op |-> "begin_cell", kind |-> T.kind, site |-> p, v |-> nov,
                lo |-> 0, hi |-> 0, truncs |-> T.truncs, erased |-> T.erased,
                checks |-> T.checks, deletes |-> T.deletes, mid |-> T.mid]

\* line 503: the next site
BeginCell(reuse1, reuse2, high) ==
    /\ pc = "run"
    /\ p <= Len(sites)
    /\ events_ # <<>> => ~FirstPrior
    /\ Begun(begin_cell(State, p, reuse1, reuse2, high))
    /\ p' = p + 1
    /\ UNCHANGED <<sites, pc>>

\* line 508
Return ==
    /\ pc = "run"
    /\ p > Len(sites)
    /\ events_ = <<>>
    /\ pc' = "done"
    /\ last' = Idle("return")
    /\ UNCHANGED <<sites, p, cells_, edges_, vmem, vertices_, vfree, endpoints_, nep,
                   events_, failed, ub>>

\* the next operation goes through an erased or invalid handle
NextUndefined ==
    \/ events_ # <<>> /\ ~FirstLive
    \/ \E r1 \in Reuse, r2 \in BOOLEAN, h \in BOOLEAN :
         IF events_ # <<>> /\ (p <= Len(sites) => FirstPrior)
         THEN finish_edges(State, r1, r2, h).ub
         ELSE p <= Len(sites) /\ begin_cell(State, p, r1, r2, h).ub

\* undefined behaviour may end the run
Fault ==
    /\ pc = "run"
    /\ NextUndefined
    /\ pc' = "fault"
    /\ ub' = TRUE
    /\ last' = Idle("fault")
    /\ UNCHANGED <<sites, p, cells_, edges_, vmem, vertices_, vfree, endpoints_, nep,
                   events_, failed>>

Next ==
    \/ \E r1 \in Reuse, r2 \in BOOLEAN, h \in BOOLEAN : Fire(r1, r2, h)
    \/ \E r1 \in Reuse, r2 \in BOOLEAN, h \in BOOLEAN : BeginCell(r1, r2, h)
    \/ Return
    \/ Fault

Spec == Init /\ [][Next]_vars

\* operator() is sequential code that never suspends or blocks: it returns once its
\* loops are done, and until it has ended it goes on taking steps.  Some step of Next
\* is enabled in every state with pc = "run", so this is weak fairness of Next.
FairSpec == Spec /\ WF_vars(Return) /\ ([]<>(pc # "run") \/ []<><<Next>>_vars)

-----------------------------------------------------------------------------
(* trunc_edge on its own: one edge between two sites, truncated by vertex 1 *)

TruncInit ==
    /\ sites \in {s \in [1 .. 2 -> Points] : s[1] # s[2]}
    /\ p = 1
    /\ pc = "trunc"
    /\ cells_ = <<>>
    /\ edges_ \in {<<[l |-> 1, r |-> 2, b |-> b, e |-> e]>> : b \in {nov, 1, 2}, e \in {nov, 1, 2}}
    /\ vmem \in {<<[xn |-> 3, yn |-> k, g |-> 2, rn |-> 1], [xn |-> 1, yn |-> 1, g |-> 2, rn |-> 1]>> :
                    k \in -1 .. 5}
    /\ vertices_ = {1, 2}
    /\ vfree = <<>>
    /\ endpoints_ = <<>>
    /\ nep = 0
    /\ events_ = <<>>
    /\ failed = {}
    /\ ub = FALSE
    /\ last = Idle("init")

Truncated(T) ==
    /\ Commit(T)
    /\ ub' = (ub \/ T.ub)
    /\ last' = [Idle("trunc_edge") EXCEPT !.v = 1, !.truncs = T.truncs]

TruncEdge ==
    /\ pc = "trunc"
    /\ Truncated(trunc_edge(State, 1, 1))
    /\ pc' = "done"
    /\ UNCHANGED <<sites, p>>

TruncSpec == TruncInit /\ [][TruncEdge]_vars

-----------------------------------------------------------------------------
(* delete_event on its own: called for an event of the queue at any point of a run *)
(* in which no erased handle was used                                              *)

Deleted(T, v) ==
    /\ Commit(T)
    /\ ub' = (ub \/ T.ub)
    /\ last' = [Idle("delete_event") EXCEPT !.v = v, !.erased = T.erased,
                                            !.deletes = T.deletes]

DeleteEvent(i, high) ==
    /\ pc = "run"
    /\ ~ub
    /\ i <= Len(events_)
    /\ events_[i].v \in vertices_
    /\ Deleted(delete_event(State, events_[i].v, high), events_[i].v)
    /\ pc' = "done"
    /\ UNCHANGED <<sites, p>>

DeleteNext ==
    \/ \E r1 \in Reuse, r2 \in BOOLEAN, h \in BOOLEAN : Fire(r1, r2, h)
    \/ \E r1 \in Reuse, r2 \in BOOLEAN, h \in BOOLEAN : BeginCell(r1, r2, h)
    \/ \E i \in 1 .. MaxSites, h \in BOOLEAN : DeleteEvent(i, h)

DeleteSpec == Init /\ [][DeleteNext]_vars

-----------------------------------------------------------------------------
(* point_less and make_vertex on their own, on points of the grid.  For integer *)
(* coordinates every eps with 0 < eps < 1 gives the results computed here.       *)

Unused ==
    /\ p = 1
    /\ cells_ = <<>>
    /\ edges_ = <<>>
    /\ vmem = <<>>
    /\ vertices_ = {}
    /\ vfree = <<>>
    /\ endpoints_ = <<>>
    /\ nep = 0
    /\ events_ = <<>>
    /\ failed = {}
    /\ ub = FALSE
    /\ last = Idle("init")

LessInit ==
    /\ sites \in [1 .. 2 -> Points]
    /\ pc = "less"
    /\ Unused

\* point_less(sites[1], sites[2])
PointLess ==
    /\ pc = "less"
    /\ pc' = "done"
    /\ last' = [Idle("point_less") EXCEPT
                   !.kind = IF point_less(sites[1], sites[2]) THEN "less" ELSE "not less"]
    /\ UNCHANGED <<sites, p, cells_, edges_, vmem, vertices_, vfree, endpoints_, nep,
                   events_, failed, ub>>

LessSpec == LessInit /\ [][PointLess]_vars

VertexInit ==
    /\ sites \in [1 .. 3 -> Points]
    /\ pc = "vertex"
    /\ Unused

Made(T) ==
    /\ Commit(T)
    /\ ub' = (ub \/ T.ub)
    /\ last' = [Idle("make_vertex") EXCEPT !.v = T.made]

\* make_vertex(sites[1], sites[2], sites[3])
MakeVertex ==
    /\ pc = "vertex"
    /\ Made(make_vertex(State, sites[1], sites[2], sites[3], FALSE))
    /\ pc' = "done"
    /\ UNCHANGED <<sites, p>>

VertexSpec == VertexInit /\ [][MakeVertex]_vars

-----------------------------------------------------------------------------
(* The driver on inputs with one site per abscissa 0, 1, 2, ...: sorted, pairwise *)
(* different, and no two sites equivalent under point_less                        *)

\* Longest input sequence of such sites, and the ordinates they are drawn from.
WideSites == 5
WideYs == 0 .. 3

WideInputs ==
    UNION {{[i \in 1 .. n |-> [x |-> i - 1, y |-> ys[i]]] : ys \in [1 .. n -> WideYs]}
           : n \in 0 .. WideSites}

WideInit ==
    /\ sites \in WideInputs
    /\ pc = "run"
    /\ Unused

WideSpec == WideInit /\ [][Next]_vars

-----------------------------------------------------------------------------
(* What the properties below speak of *)

\* the driver has just made a step
Stepped == last.op \in {"begin_cell", "finish_edges"}

\* the vertices that key an event of the queue
EventVertices == {events_[i].v : i \in 1 .. Len(events_)}

\* the vertices that are b or e of an edge
EdgeVertices ==
    ({edges_[i].b : i \in 1 .. Len(edges_)} \cup {edges_[i].e : i \in 1 .. Len(edges_)}) \ {nov}

\* the position in the beach line of the breakpoint with handle id, 0 when it is not there
LinkPos(id) ==
    IF \E i \in 1 .. Len(endpoints_) : endpoints_[i].id = id
    THEN CHOOSE i \in 1 .. Len(endpoints_) : endpoints_[i].id = id
    ELSE 0

\* how often edge e occurs in a ring
Count(ring, e) == Cardinality({k \in 1 .. Len(ring) : ring[k] = e})

\* the position of the cell cells_.find(s) gives for site s
CellOf(s) ==
    CHOOSE i \in 1 .. Len(cells_) :
        /\ ~point_less(sites[cells_[i].site], sites[s])
        /\ ~point_less(sites[s], sites[cells_[i].site])

\* the number of edges with v as an endpoint
Degree(v) == Cardinality({e \in 1 .. Len(edges_) : edges_[e].b = v \/ edges_[e].e = v})

\* the sign of Cross is the side of q seen from the line through the centres of b and
\* then e: positive on the left, negative on the right
Cross(b, e, q) ==
    (e.xn * b.g - b.xn * e.g) * (q.y * b.g - b.yn)
        - (e.yn * b.g - b.yn * e.g) * (q.x * b.g - b.xn)

\* the edges with both endpoints set
Bounded == {e \in 1 .. Len(edges_) : edges_[e].b # nov /\ edges_[e].e # nov}

-----------------------------------------------------------------------------
(* Properties *)

\* C1: for every sorted input the driver returns, and at its return the event queue
\* is empty.
C1_ReturnsWithEmptyQueue == <>(pc = "done" /\ events_ = <<>>)

C3_TwoBreakpointsOneEdge ==
    [][(p' = p + 1 /\ p > 1) =>
          /\ Len(endpoints_') = Len(endpoints_) + 2
          /\ Len(edges_') = Len(edges_) + 1
          /\ \E i \in 1 .. Len(endpoints_') - 1 :
                /\ endpoints_'[i].id > nep
                /\ endpoints_'[i + 1].id > nep
                /\ endpoints_'[i].r = p
                /\ endpoints_'[i + 1].l = p
                /\ endpoints_'[i].l = endpoints_'[i + 1].r
                /\ endpoints_'[i].e = Len(edges_')
                /\ endpoints_'[i + 1].e = Len(edges_')]_vars

\* C4: after every driver step the stored vertices are the vertices that key an
\* event of the queue together with the vertices that are b or e of an edge.
C4_StorageIsEventsAndEdges ==
    Stepped => vertices_ = EventVertices \cup EdgeVertices

C6_EdgeInTwoRings ==
    Stepped =>
        \A e \in 1 .. Len(edges_) :
            /\ CellOf(edges_[e].l) # CellOf(edges_[e].r)
            /\ \A i \in 1 .. Len(cells_) :
                  Count(cells_[i].ring, e) =
                     IF i \in {CellOf(edges_[e].l), CellOf(edges_[e].r)} THEN 1 ELSE 0

\* C7: no vertex that keys an event of the queue or is b or e of an edge is erased:
\* every event key and every edge endpoint is in vertex storage.
C7_ReferencedVerticesStored == EventVertices \cup EdgeVertices \subseteq vertices_

\* C8: after every driver step every vertex that is b or e of an edge is an
\* endpoint of at least three edges.
C8_DegreeAtLeastThree ==
    Stepped => \A v \in EdgeVertices : Degree(v) >= 3

\* an event has fired and its vertex ends edges
C8_FinalisedVertex ==
    /\ last.op = "finish_edges"
    /\ last.v \in EdgeVertices
    /\ Len(last.truncs) = 2

\* C9: for every edge with both endpoints set, site l is strictly on the left and
\* site r strictly on the right of the line from the centre of b to the centre of e.
C9_Orientation ==
    \A e \in Bounded :
        /\ Cross(vmem[edges_[e].b], vmem[edges_[e].e], sites[edges_[e].l]) > 0
        /\ Cross(vmem[edges_[e].b], vmem[edges_[e].e], sites[edges_[e].r]) < 0

\* C10: trunc_edge(edge, v) sets one endpoint to v and leaves l, r and the other
\* endpoint: with both unset it sets b when (r.x < l.x and v.y < l.y) or
\* (l.x < r.x and r.y < v.y) and e otherwise; with only b set it sets e; with only
\* e set it sets b.
C10_TruncEdgeCases ==
    \A k \in 1 .. Len(last.truncs) :
        IF last.truncs[k].was.b = nov /\ last.truncs[k].was.e = nov
        THEN IF \/ /\ sites[last.truncs[k].was.r].x < sites[last.truncs[k].was.l].x
                   /\ last.truncs[k].c.yn < sites[last.truncs[k].was.l].y * last.truncs[k].c.g
                \/ /\ sites[last.truncs[k].was.l].x < sites[last.truncs[k].was.r].x
                   /\ sites[last.truncs[k].was.r].y * last.truncs[k].c.g < last.truncs[k].c.yn
             THEN last.truncs[k].now = [last.truncs[k].was EXCEPT !.b = last.truncs[k].v]
             ELSE last.truncs[k].now = [last.truncs[k].was EXCEPT !.e = last.truncs[k].v]
        ELSE IF last.truncs[k].was.e = nov
        THEN last.truncs[k].now = [last.truncs[k].was EXCEPT !.e = last.truncs[k].v]
        ELSE IF last.truncs[k].was.b = nov
        THEN last.truncs[k].now = [last.truncs[k].was EXCEPT !.b = last.truncs[k].v]
        ELSE \/ last.truncs[k].now = [last.truncs[k].was EXCEPT !.b = last.truncs[k].v]
             \/ last.truncs[k].now = [last.truncs[k].was EXCEPT !.e = last.truncs[k].v]

\* trunc_edge set b of an edge with neither endpoint set, its r site right of its l
\* site and below the vertex
C10_OrientedToB ==
    /\ last.op = "trunc_edge"
    /\ last.truncs[1].was.b = nov
    /\ last.truncs[1].was.e = nov
    /\ sites[1].x < sites[2].x
    /\ last.truncs[1].now.b = 1
    /\ last.truncs[1].now.e = nov

\* the vertices that key an event of the sequence q
KeysOf(q) == {q[i].v : i \in 1 .. Len(q)}

\* the vertices the breakpoints of the sequence b link
LinksOf(b) == {b[j].ev : j \in 1 .. Len(b)}

\* what C11 says of the call c of check_event whose pair linked the event c.w
EarlierKept(c) ==
    IF event_less(c.cv, c.cw)
    THEN /\ c.w \notin KeysOf(c.now.events)
         /\ c.w \notin c.now.vlive
         /\ c.w \notin LinksOf(c.now.endpoints)
         /\ c.v \in KeysOf(c.now.events)
         /\ c.now.endpoints[c.l].ev = c.v
         /\ c.now.endpoints[c.r].ev = c.v
    ELSE /\ c.now.events = c.was.events
         /\ c.now.vlive \ {c.v} = c.was.vlive \ {c.v}
         /\ c.now.endpoints = c.was.endpoints
         /\ c.w \in c.now.vlive

\* C11: when check_event(L, R) makes a vertex v and L or R links a pending event w,
\* then if event_less(v, w) afterwards w is neither queued nor stored nor linked, v
\* is queued and L and R link v; otherwise the queue, the stored vertices other than
\* v and every link are as before, and w is still stored.
C11_EarlierEventKept ==
    \A k \in 1 .. Len(last.checks) :
        last.checks[k].w # nov => EarlierKept(last.checks[k])

\* what C12 says of the call d of delete_event
DeleteFrame(d) ==
    /\ d.v \notin KeysOf(d.now.events)
    /\ d.v \notin d.now.vlive
    /\ d.v \notin LinksOf(d.now.endpoints)
    /\ d.now.events = SelectSeq(d.was.events, LAMBDA e : e.v # d.v)
    /\ d.now.vlive = d.was.vlive \ {d.v}
    /\ Len(d.now.endpoints) = Len(d.was.endpoints)
    /\ \A j \in 1 .. Len(d.was.endpoints) :
          d.now.endpoints[j] =
             IF d.was.endpoints[j].ev = d.v THEN [d.was.endpoints[j] EXCEPT !.ev = nov]
             ELSE d.was.endpoints[j]
    /\ d.now.edges = d.was.edges
    /\ d.now.cells = d.was.cells

Arc(k) == [id |-> k.id, l |-> k.l, r |-> k.r, e |-> k.e]

\* C13: firing the event of vertex v removes it from the queue, truncates by v the
\* edge of every breakpoint of the event's range [lo, hi), erases those breakpoints
\* and puts in their place one breakpoint (l of the first, r of the last) that
\* carries a new last edge with that l and r, b = v and e unset; the beach line
\* shrinks by the size of the range less one and the edge list grows by one.
C13_FiringReplacesRange ==
    [][last'.op = "finish_edges" /\ last' # last =>
          /\ last'.mid.events = Tail(events_)
          /\ Len(last'.truncs) = last'.hi - last'.lo
          /\ \A k \in 1 .. Len(last'.truncs) :
                /\ last'.truncs[k].edge = endpoints_[last'.lo + k - 1].e
                /\ last'.truncs[k].v = last'.v
                /\ last'.v \in {edges_'[last'.truncs[k].edge].b, edges_'[last'.truncs[k].edge].e}
          /\ Len(endpoints_') = Len(endpoints_) - (last'.hi - last'.lo - 1)
          /\ \A i \in 1 .. last'.lo - 1 : Arc(endpoints_'[i]) = Arc(endpoints_[i])
          /\ \A i \in last'.lo + 1 .. Len(endpoints_') :
                Arc(endpoints_'[i]) = Arc(endpoints_[i + last'.hi - last'.lo - 1])
          /\ Arc(endpoints_'[last'.lo]) =
                [id |-> nep', l |-> endpoints_[last'.lo].l, r |-> endpoints_[last'.hi - 1].r,
                 e |-> Len(edges_')]
          /\ nep' = nep + 1
          /\ Len(edges_') = Len(edges_) + 1
          /\ edges_'[Len(edges_')] =
                [l |-> endpoints_[last'.lo].l, r |-> endpoints_[last'.hi - 1].r,
                 b |-> last'.v, e |-> nov]]_vars

\* an event fired, in a run that used no erased handle, whose range of two
\* breakpoints had a breakpoint before it
C13_FiredAfterFirst ==
    /\ last.op = "finish_edges"
    /\ ~ub
    /\ last.hi - last.lo = 2
    /\ 1 < last.lo

\* C14: point_less(p, q) holds exactly when p.x + eps < q.x, or
\* p.x + eps >= q.x >= p.x - eps and p.y + eps < q.y; stated here for eps = 1/2, with
\* every term doubled.
C14_TolerantLexicographic ==
    last.op = "point_less" =>
        (last.kind = "less" <=>
            \/ 2 * sites[1].x + 1 < 2 * sites[2].x
            \/ /\ 2 * sites[1].x + 1 >= 2 * sites[2].x
               /\ 2 * sites[2].x >= 2 * sites[1].x - 1
               /\ 2 * sites[1].y + 1 < 2 * sites[2].y)

\* twice the signed area of the triple (a, b, c): positive when it turns
\* counter-clockwise
Area2(a, b, c) == (b.x - a.x) * (c.y - b.y) - (b.y - a.y) * (c.x - b.x)

\* C15: make_vertex(a, b, c) returns no vertex exactly when G <= eps^2, for
\* G = (b.x - a.x)(c.y - b.y) - (b.y - a.y)(c.x - b.x); G is an integer here and
\* eps^2 < 1, so G <= eps^2 is G <= 0.
C15_NoVertexForClockwise ==
    last.op = "make_vertex" =>
        (last.v = nov <=> Area2(sites[1], sites[2], sites[3]) <= 0)

\* C15 with G of the other sign: make_vertex(a, b, c) returns no vertex exactly when
\* (b.y - a.y)(c.x - b.x) - (b.x - a.x)(c.y - b.y) <= eps^2, that is for collinear and
\* counter-clockwise triples.
C15_NoVertexForCounterClockwise ==
    last.op = "make_vertex" =>
        (last.v = nov <=> -Area2(sites[1], sites[2], sites[3]) <= 0)

\* make_vertex returned a vertex for a clockwise triple
C15_VertexMade ==
    /\ last.op = "make_vertex"
    /\ last.v # nov
    /\ Area2(sites[1], sites[2], sites[3]) < 0

Square == <<[x |-> 0, y |-> 0], [x |-> 0, y |-> 1], [x |-> 1, y |-> 0], [x |-> 1, y |-> 1]>>

\* C17: for the four sites of the unit square in sorted order the run ends with one
\* vertex, at (1/2, 1/2), that ends four edges whose other endpoint is unset, and
\* with four cells, one per site; the four edges are all the edges, so one
\* finalisation has handled every breakpoint at the vertex.
C17_Square ==
    (pc = "done" /\ sites = Square) =>
        /\ Cardinality(vertices_) = 1
        /\ \A v \in vertices_ :
              /\ vmem[v].xn * 2 = vmem[v].g
              /\ vmem[v].yn * 2 = vmem[v].g
              /\ Degree(v) = 4
              /\ \A e \in 1 .. Len(edges_) : {edges_[e].b, edges_[e].e} = {v, nov}
        /\ Len(edges_) = 4
        /\ Len(cells_) = 4
        /\ \A s \in 1 .. 4 : \E i \in 1 .. 4 : cells_[i].site = s

\* the assertions of trunc_edge
TruncAsserts ==
    {"trunc_edge:426", "trunc_edge:443", "trunc_edge:447", "trunc_edge:451",
     "trunc_edge:452"}

\* C18: trunc_edge is never called on an edge with both b and e set, nor with a
\* vertex that is already b or e of the edge: no set endpoint is overwritten and
\* the assertions of trunc_edge hold.
C18_TruncOnlyUnset ==
    /\ failed \cap TruncAsserts = {}
    /\ \A k \in 1 .. Len(last.truncs) :
          /\ last.truncs[k].was.b = nov \/ last.truncs[k].was.e = nov
          /\ last.truncs[k].v \notin {last.truncs[k].was.b, last.truncs[k].was.e}

\* C19: after every driver step two consecutive breakpoints L, R of the beach line
\* share their middle site, L.r = R.l, and every call check_event(L, R) was made with
\* R the successor of L (the assertions of lines 389 and 392 hold).
C19_NeighboursShareSite ==
    Stepped =>
        /\ \A i \in 1 .. Len(endpoints_) - 1 : endpoints_[i].r = endpoints_[i + 1].l
        /\ failed \cap {"check_event:389", "check_event:392"} = {}

\* a site was appended to a beach line of two breakpoints and check_event made a
\* vertex for its last two
C19_AppendedThird ==
    /\ last.op = "begin_cell"
    /\ last.kind = "append"
    /\ Len(endpoints_) = 3
    /\ \E k \in 1 .. Len(last.checks) : last.checks[k].l = 2 /\ last.checks[k].r = 3

\* C20: whenever check_event(L, R) is called and makes a vertex, at most one of L
\* and R links a pending event: the assertions of lines 396 and 404 hold, also in
\* the call for the pair (prev(l), l) that begin_cell makes when it appends.
C20_AtMostOneLinked ==
    /\ failed \cap {"check_event:396", "check_event:404"} = {}
    /\ \A k \in 1 .. Len(last.checks) :
          \/ last.checks[k].was.endpoints[last.checks[k].l].ev = nov
          \/ last.checks[k].was.endpoints[last.checks[k].r].ev = nov

\* C21: for every sorted input of pairwise different sites every begin_cell(p) makes
\* a new cell for p (the assertion c.second of line 280 holds), and once the run has
\* returned the cell map holds one entry per site of the input.
C21_OneCellPerSite ==
    /\ "begin_cell:280" \notin failed
    /\ pc = "done" => Len(cells_) = Len(sites)

\* C22: after every driver step the beach line is totally ordered by its comparator:
\* for any two breakpoints P before Q of the beach line, adjacent or not,
\* endpoint_less(P, Q) is true and endpoint_less(Q, P) is false.
C22_BeachLineOrdered ==
    Stepped =>
        \A i \in 1 .. Len(endpoints_) : \A j \in 1 .. Len(endpoints_) :
            i < j => /\ endpoint_less(endpoints_[i], endpoints_[j])
                     /\ ~endpoint_less(endpoints_[j], endpoints_[i])

\* what C23 says of the call d of delete_event: the breakpoints whose link the call
\* cleared are the range, at least two consecutive ones that linked d.v
RangeCleared(d, range) ==
    /\ Cardinality(range) >= 2
    /\ \A i \in range : \A j \in range : \A k \in i .. j : k \in range
    /\ \A j \in range : d.was.endpoints[j].ev = d.v

Enqueued(c) == c.w = nov \/ event_less(c.cv, c.cw)

\* the site begin_cell was called for last
Inserted == IF last.op = "begin_cell" THEN last.site ELSE p - 1

\* C24: the sweep never moves backwards: every event check_event queues once site p
\* is inserted has a vertex that is not prior to p, and no event is fired that is
\* event_less than an event fired before it (the fired vertices are those the edges
\* have as endpoints).
C24_SweepForward ==
    /\ [](Stepped =>
            \A k \in 1 .. Len(last.checks) :
                Enqueued(last.checks[k]) => ~prior(last.checks[k].cv, sites[Inserted]))
    /\ [][(last'.op = "finish_edges" /\ last' # last) =>
            \A u \in EdgeVertices : ~event_less(vmem[last'.v], vmem[u])]_vars

=============================================================================
